---- MODULE Spec2Model ----
(***************************************************************************)
(* Model of the security-descriptor decoders of src/enums/secdesc.rs:      *)
(* SecurityDescriptor::parse, LdapSid::parse, Acl::parse, Ace::parse and   *)
(* the payload decoders they drive, together with the nom 7 combinators    *)
(* they are written with.                                                  *)
(*                                                                         *)
(* A byte slice is a sequence of naturals below 256.  A decoder returns a  *)
(* record whose kind is                                                    *)
(*   "Ok"          Ok((rest, val))                                         *)
(*   "Error"       Err(nom::Err::Error(Error { input, code }))             *)
(*   "Incomplete"  Err(nom::Err::Incomplete(Needed))                       *)
(*   "Panic"       the call unwound with a panic instead of returning      *)
(*                                                                         *)
(* Spec is one decode call on one buffer, SpecSteps the two decoders that  *)
(* loop taken one pass of the loop at a time, SpecAccessors one accessor   *)
(* call on one payload value.                                              *)
(***************************************************************************)
EXTENDS Integers, Sequences, FiniteSets, TLC

VARIABLES input, overflow_checks, call, result

vars == <<input, overflow_checks, call, result>>

----------------------------------------------------------------------------
(* Results and options *)

Ok(rest, val) == [kind |-> "Ok", rest |-> rest, val |-> val]

ErrEof(i) == [kind |-> "Error", input |-> i, code |-> "Eof"]

Incomplete(n) == [kind |-> "Incomplete", needed |-> n]

Panic(msg) == [kind |-> "Panic", msg |-> msg]

None == [some |-> FALSE]

Some(v) == [some |-> TRUE, v |-> v]

Drop(i, n) == SubSeq(i, n + 1, Len(i))

----------------------------------------------------------------------------
(* nom7::number::complete and nom7::bytes::streaming *)

le_u8(i) ==
  IF Len(i) < 1 THEN ErrEof(i) ELSE Ok(Drop(i, 1), i[1])

le_u16(i) ==
  IF Len(i) < 2 THEN ErrEof(i) ELSE Ok(Drop(i, 2), i[1] + 256 * i[2])

le_u32(i) ==
  IF Len(i) < 4 THEN ErrEof(i)
  ELSE Ok(Drop(i, 4), i[1] + 256 * i[2] + 65536 * i[3] + 16777216 * i[4])

\* A u128 does not fit the checker's integers: the value is kept as its 16
\* base-256 digits, most significant first (the little-endian bytes reversed).
le_u128(i) ==
  IF Len(i) < 16 THEN ErrEof(i)
  ELSE Ok(Drop(i, 16), [k \in 1..16 |-> i[17 - k]])

take(n, i) ==
  IF Len(i) >= n THEN Ok(Drop(i, n), SubSeq(i, 1, n))
  ELSE Incomplete(n - Len(i))

\* take with the count 2^W - m that a wrapping usize subtraction leaves, W the
\* width of usize and m in 1..4.  No slice is that long (a slice holds at most
\* isize::MAX bytes), so only the failing arm of take remains; the number of
\* missing bytes is 2^W - (m + Len(i)).
take_wrapped(m, i) ==
  Incomplete([wrapped |-> TRUE, minus |-> m + Len(i)])

----------------------------------------------------------------------------
(* A decode function is a sequence of steps  let (i, x) = p(i)?;  A decode  *)
(* in progress is the remaining input and the values bound so far, or the  *)
(* failure (or panic) that ended it.  Each step is an operator on it.      *)

Start(i) == Ok(i, <<>>)

\* the outcome r of a step: ? returns a failure at once, a panic unwinds, a
\* value is bound
Bound(st, r) == IF r.kind # "Ok" THEN r ELSE Ok(r.rest, Append(st.val, r.val))

\* let (i, x) = le_u8(i)?;
let_le_u8(st) == IF st.kind # "Ok" THEN st ELSE Bound(st, le_u8(st.rest))

\* let (i, x) = le_u16(i)?;
let_le_u16(st) == IF st.kind # "Ok" THEN st ELSE Bound(st, le_u16(st.rest))

\* let (i, x) = le_u32(i)?;
let_le_u32(st) == IF st.kind # "Ok" THEN st ELSE Bound(st, le_u32(st.rest))

----------------------------------------------------------------------------
(* LdapSidIdentifiedAuthority and LdapSid *)

\* let (i, value) = take(6_usize)(i)?;
let_value(st) == IF st.kind # "Ok" THEN st ELSE Bound(st, take(6, st.rest))

LdapSidIdentifiedAuthority_new(st) ==
  IF st.kind # "Ok" THEN st ELSE Ok(st.rest, [value |-> st.val[1]])

LdapSidIdentifiedAuthority_parse(i) ==
  LdapSidIdentifiedAuthority_new(let_value(Start(i)))

\* count_le_u32 with elements read two bytes wide
RECURSIVE count_le_u32_narrow(_, _, _)
count_le_u32_narrow(i, n, res) ==
  IF n = 0 THEN Ok(i, res)
  ELSE LET r == le_u16(i) IN
       IF r.kind # "Ok" THEN r
       ELSE count_le_u32_narrow(r.rest, n - 1, Append(res, r.val))

\* nom7::multi::count(le_u32, n): Error::append keeps the inner error
RECURSIVE count_le_u32(_, _, _)
count_le_u32(i, n, res) ==
  IF n = 0 THEN Ok(i, res)
  ELSE LET r == le_u32(i) IN
       IF r.kind # "Ok" THEN r
       ELSE count_le_u32(r.rest, n - 1, Append(res, r.val))

\* let (i, identifier_authority) = LdapSidIdentifiedAuthority::parse(i)?;
let_identifier_authority(st) ==
  IF st.kind # "Ok" THEN st
  ELSE Bound(st, LdapSidIdentifiedAuthority_parse(st.rest))

\* let (i, sub_authority) = count(le_u32, sub_authority_count as usize)(i)?;
let_sub_authority(st) ==
  IF st.kind # "Ok" THEN st
  ELSE Bound(st, count_le_u32(st.rest, st.val[2], <<>>))

\* LdapSid_new with the revision fixed to 1 instead of echoed back
LdapSid_new_revision_1(st) ==
  IF st.kind # "Ok" THEN st
  ELSE Ok(st.rest, [revision |-> 1,
                    sub_authority_count |-> st.val[2],
                    identifier_authority |-> st.val[3],
                    sub_authority |-> st.val[4]])

LdapSid_new(st) ==
  IF st.kind # "Ok" THEN st
  ELSE Ok(st.rest, [revision |-> st.val[1],
                    sub_authority_count |-> st.val[2],
                    identifier_authority |-> st.val[3],
                    sub_authority |-> st.val[4]])

LdapSid_parse(i) ==
  LdapSid_new(
    let_sub_authority(
      let_identifier_authority(
        let_le_u8(
          let_le_u8(Start(i))))))

----------------------------------------------------------------------------
(* ObjectAceFlags (bitflags! over u32) *)

ACE_OBJECT_PRESENT == 1

ACE_INHERITED_OBJECT_PRESENT == 2

\* Self::all().bits()
ObjectAceFlags_all == 3

\* from_bits: None when a bit outside all() is set
ObjectAceFlags_from_bits(bits) ==
  IF bits - (bits % (ObjectAceFlags_all + 1)) = 0
  THEN Some([bits |-> bits])
  ELSE None

\* contains, for a single-bit flag
ObjectAceFlags_contains(flags, flag) == (flags.bits \div flag) % 2 = 1

\* Option::unwrap, in a step that leaves the input where it is
unwrap(i, o) ==
  IF o.some THEN Ok(i, o.v)
  ELSE Panic("called Option::unwrap on a None value")

\* let object_ace_flags = ObjectAceFlags::from_bits(flags).unwrap();
let_object_ace_flags(st) ==
  IF st.kind # "Ok" THEN st
  ELSE Bound(st, unwrap(st.rest, ObjectAceFlags_from_bits(st.val[1])))

ObjectAceFlags_new(st) ==
  IF st.kind # "Ok" THEN st ELSE Ok(st.rest, st.val[2])

ObjectAceFlags_parse(i) ==
  ObjectAceFlags_new(let_object_ace_flags(let_le_u32(Start(i))))

\* the Some(..) that cond maps the value of its parser to
cond_Some(r) == IF r.kind # "Ok" THEN r ELSE Ok(r.rest, Some(r.val))

\* nom7::combinator::cond(b, le_u128)
cond_le_u128(b, i) == IF b THEN cond_Some(le_u128(i)) ELSE Ok(i, None)

----------------------------------------------------------------------------
(* ACE payloads *)

ACCESS_ALLOWED_ACE_TYPE == 0

ACCESS_DENIED_ACE_TYPE == 1

ACCESS_ALLOWED_OBJECT_ACE_TYPE == 5

ACCESS_DENIED_OBJECT_ACE_TYPE == 6

\* let (i, sid) = LdapSid::parse(i)?;
let_sid(st) == IF st.kind # "Ok" THEN st ELSE Bound(st, LdapSid_parse(st.rest))

AccessAllowedAce_new(st) ==
  IF st.kind # "Ok" THEN st
  ELSE Ok(st.rest, [mask |-> st.val[1], sid |-> st.val[2]])

\* AccessAllowedAce_parse with a mask two bytes wide
AccessAllowedAce_parse_short_mask(i) ==
  AccessAllowedAce_new(let_sid(let_le_u16(Start(i))))

AccessAllowedAce_parse(i) ==
  AccessAllowedAce_new(let_sid(let_le_u32(Start(i))))

\* let (i, flags) = ObjectAceFlags::parse(i)?;
let_flags(st) ==
  IF st.kind # "Ok" THEN st ELSE Bound(st, ObjectAceFlags_parse(st.rest))

\* let (i, object_type) =
\*   cond(flags.contains(ObjectAceFlags::ACE_OBJECT_PRESENT), le_u128)(i)?;
let_object_type(st) ==
  IF st.kind # "Ok" THEN st
  ELSE Bound(st, cond_le_u128(
                   ObjectAceFlags_contains(st.val[2], ACE_OBJECT_PRESENT),
                   st.rest))

\* let (i, inherited_object_type) =
\*   cond(flags.contains(ObjectAceFlags::ACE_INHERITED_OBJECT_PRESENT), le_u128)(i)?;
let_inherited_object_type(st) ==
  IF st.kind # "Ok" THEN st
  ELSE Bound(st, cond_le_u128(
                   ObjectAceFlags_contains(st.val[2],
                                           ACE_INHERITED_OBJECT_PRESENT),
                   st.rest))

AccessAllowedObjectAce_new(st) ==
  IF st.kind # "Ok" THEN st
  ELSE Ok(st.rest, [mask |-> st.val[1],
                    flags |-> st.val[2],
                    object_type |-> st.val[3],
                    inherited_object_type |-> st.val[4],
                    sid |-> st.val[5]])

\* AccessAllowedObjectAce_parse with the two GUIDs read in the other order
AccessAllowedObjectAce_parse_swapped(i) ==
  AccessAllowedObjectAce_new(
    let_sid(
      let_object_type(
        let_inherited_object_type(
          let_flags(
            let_le_u32(Start(i)))))))

AccessAllowedObjectAce_parse(i) ==
  AccessAllowedObjectAce_new(
    let_sid(
      let_inherited_object_type(
        let_object_type(
          let_flags(
            let_le_u32(Start(i)))))))

\* Ok((i, AceFormat::AceAllowed(r?.1)))
AceAllowed(i, r) ==
  IF r.kind # "Ok" THEN r
  ELSE Ok(i, [variant |-> "AceAllowed", ace |-> r.val])

\* Ok((i, AceFormat::AceObjectAllowed(r?.1)))
AceObjectAllowed(i, r) ==
  IF r.kind # "Ok" THEN r
  ELSE Ok(i, [variant |-> "AceObjectAllowed", ace |-> r.val])

\* Every successful arm returns its own argument i as the remaining input.
AceFormat_parse(i, ace_type) ==
  IF ace_type = ACCESS_ALLOWED_ACE_TYPE
  THEN AceAllowed(i, AccessAllowedAce_parse(i))
  ELSE IF ace_type = ACCESS_DENIED_ACE_TYPE
  THEN AceAllowed(i, AccessAllowedAce_parse(i))
  ELSE IF ace_type = ACCESS_ALLOWED_OBJECT_ACE_TYPE
  THEN AceObjectAllowed(i, AccessAllowedObjectAce_parse(i))
  ELSE IF ace_type = ACCESS_DENIED_OBJECT_ACE_TYPE
  THEN AceObjectAllowed(i, AccessAllowedObjectAce_parse(i))
  ELSE Panic("Error during ACE data parsing to AceFormat!")

\* AceFormat::Empty
Empty == [variant |-> "Empty"]

get_mask(value) ==
  IF value.variant = "AceAllowed" THEN Some(value.ace.mask)
  ELSE IF value.variant = "AceObjectAllowed" THEN Some(value.ace.mask)
  ELSE None

get_sid(value) ==
  IF value.variant = "AceAllowed" THEN Some(value.ace.sid)
  ELSE IF value.variant = "AceObjectAllowed" THEN Some(value.ace.sid)
  ELSE None

get_flags(value) ==
  IF value.variant = "AceAllowed" THEN None
  ELSE IF value.variant = "AceObjectAllowed" THEN Some(value.ace.flags)
  ELSE None

\* get_object_type returning the other GUID
get_object_type_inherited(value) ==
  IF value.variant = "AceAllowed" THEN None
  ELSE IF value.variant = "AceObjectAllowed"
  THEN value.ace.inherited_object_type
  ELSE None

get_object_type(value) ==
  IF value.variant = "AceAllowed" THEN None
  ELSE IF value.variant = "AceObjectAllowed" THEN value.ace.object_type
  ELSE None

get_inherited_object_type(value) ==
  IF value.variant = "AceAllowed" THEN None
  ELSE IF value.variant = "AceObjectAllowed"
  THEN value.ace.inherited_object_type
  ELSE None

----------------------------------------------------------------------------
(* Ace and Acl *)

\* take(ace_size as usize - 4)(i).  With overflow checks (the debug profile)
\* a subtraction below zero panics; without them (the release profile) it
\* wraps to 2^W - (4 - ace_size).
take_ace_size_sub_4(i, ace_size, checks) ==
  IF ace_size >= 4 THEN take(ace_size - 4, i)
  ELSE IF checks THEN Panic("attempt to subtract with overflow")
  ELSE take_wrapped(4 - ace_size, i)

\* let (i, data) = take(ace_size as usize - 4)(i)?;
let_data(st, checks) ==
  IF st.kind # "Ok" THEN st
  ELSE Bound(st, take_ace_size_sub_4(st.rest, st.val[3], checks))

\* the value of r with i as the remaining input
Keeping(i, r) == IF r.kind # "Ok" THEN r ELSE Ok(i, r.val)

\* let (_j, ace_data_formated) = AceFormat::parse(data, ace_type)?;
\* data is the fourth value bound, ace_type the first; i stays where it is
let_ace_data_formated(st) ==
  IF st.kind # "Ok" THEN st
  ELSE Bound(st, Keeping(st.rest, AceFormat_parse(st.val[4], st.val[1])))

Ace_new(st) ==
  IF st.kind # "Ok" THEN st
  ELSE Ok(st.rest, [ace_type |-> st.val[1],
                    ace_flags |-> st.val[2],
                    ace_size |-> st.val[3],
                    data |-> st.val[5]])

\* let_data with the declared size taken for the size of the body
let_data_whole_size(st) ==
  IF st.kind # "Ok" THEN st ELSE Bound(st, take(st.val[3], st.rest))

\* Ace_parse_in slicing ace_size bytes for the body instead of ace_size - 4
Ace_parse_in_whole_size(i, checks) ==
  Ace_new(
    let_ace_data_formated(
      let_data_whole_size(
        let_le_u16(
          let_le_u8(
            let_le_u8(Start(i)))))))

\* Ace::parse under the build profile checks
Ace_parse_in(i, checks) ==
  Ace_new(
    let_ace_data_formated(
      let_data(
        let_le_u16(
          let_le_u8(
            let_le_u8(Start(i)))), checks)))

Ace_parse(i) == Ace_parse_in(i, overflow_checks)

\* count_Ace giving back the ACEs decoded so far when one fails
RECURSIVE count_Ace_partial(_, _, _)
count_Ace_partial(i, n, res) ==
  IF n = 0 THEN Ok(i, res)
  ELSE LET r == Ace_parse(i) IN
       IF r.kind # "Ok" THEN Ok(i, res)
       ELSE count_Ace_partial(r.rest, n - 1, Append(res, r.val))

\* count_Ace putting each decoded ACE in front of the earlier ones
RECURSIVE count_Ace_reversed(_, _, _)
count_Ace_reversed(i, n, res) ==
  IF n = 0 THEN Ok(i, res)
  ELSE LET r == Ace_parse(i) IN
       IF r.kind # "Ok" THEN r
       ELSE count_Ace_reversed(r.rest, n - 1, <<r.val>> \o res)

\* nom7::multi::count(Ace::parse, n): Error::append keeps the inner error,
\* every other failure is returned as it is.
RECURSIVE count_Ace(_, _, _)
count_Ace(i, n, res) ==
  IF n = 0 THEN Ok(i, res)
  ELSE LET r == Ace_parse(i) IN
       IF r.kind # "Ok" THEN r
       ELSE count_Ace(r.rest, n - 1, Append(res, r.val))

\* let (i, data) = count(Ace::parse, ace_count as usize)(i)?;
let_aces(st) ==
  IF st.kind # "Ok" THEN st
  ELSE Bound(st, count_Ace(st.rest, st.val[4], <<>>))

Acl_new(st) ==
  IF st.kind # "Ok" THEN st
  ELSE Ok(st.rest, [acl_revision |-> st.val[1],
                    sbz1 |-> st.val[2],
                    acl_size |-> st.val[3],
                    ace_count |-> st.val[4],
                    sbz2 |-> st.val[5],
                    data |-> st.val[6]])

Acl_parse(i) ==
  Acl_new(
    let_aces(
      let_le_u16(
        let_le_u16(
          let_le_u16(
            let_le_u8(
              let_le_u8(Start(i))))))))

----------------------------------------------------------------------------
(* SecurityDescriptor *)

\* SecurityDescriptor_new with the owner and group offsets in each other's place
SecurityDescriptor_new_swapped(st) ==
  IF st.kind # "Ok" THEN st
  ELSE Ok(st.rest, [revision |-> st.val[1],
                    sbz1 |-> st.val[2],
                    control |-> st.val[3],
                    offset_owner |-> st.val[5],
                    offset_group |-> st.val[4],
                    offset_sacl |-> st.val[6],
                    offset_dacl |-> st.val[7]])

SecurityDescriptor_new(st) ==
  IF st.kind # "Ok" THEN st
  ELSE Ok(st.rest, [revision |-> st.val[1],
                    sbz1 |-> st.val[2],
                    control |-> st.val[3],
                    offset_owner |-> st.val[4],
                    offset_group |-> st.val[5],
                    offset_sacl |-> st.val[6],
                    offset_dacl |-> st.val[7]])

SecurityDescriptor_parse(i) ==
  SecurityDescriptor_new(
    let_le_u32(
      let_le_u32(
        let_le_u32(
          let_le_u32(
            let_le_u16(
              let_le_u8(
                let_le_u8(Start(i)))))))))

----------------------------------------------------------------------------
(* Input buffers: encodings of the structures in the layout the decoders   *)
(* read, every declared size and count also set to values the bytes do not *)
(* bear out, and every prefix of each buffer.                              *)

MaxSubAuth == 2

MaxObjectFlags == 4

MaxPad == 1

MaxAces == 2

LE16(n) == <<n % 256, n \div 256>>

LE32(n) == <<n % 256, (n \div 256) % 256, (n \div 65536) % 256, n \div 16777216>>

Authority == <<0, 0, 0, 0, 0, 5>>

SubAuthValue(k) == 32 + 512 * (k - 1)

RECURSIVE SubAuthBytes(_)
SubAuthBytes(n) ==
  IF n = 0 THEN <<>> ELSE SubAuthBytes(n - 1) \o LE32(SubAuthValue(n))

SidBytes(rev, n) == <<rev, n>> \o Authority \o SubAuthBytes(n)

MaskBytes == <<189, 1, 15, 0>>

GuidA == [k \in 1..16 |-> 16 + k]

GuidB == [k \in 1..16 |-> 64 + k]

Padding(p) == [k \in 1..(4 * p) |-> 0]

SimpleBody(n, p) == MaskBytes \o SidBytes(1, n) \o Padding(p)

ObjectBody(f, n, p) ==
  MaskBytes \o LE32(f)
    \o (IF f % 2 = 1 THEN GuidA ELSE <<>>)
    \o (IF (f \div 2) % 2 = 1 THEN GuidB ELSE <<>>)
    \o SidBytes(1, n) \o Padding(p)

AceBytes(type, size, body) == <<type, 18>> \o LE16(size) \o body

UnknownType == 2

SimpleTypes == {ACCESS_ALLOWED_ACE_TYPE, ACCESS_DENIED_ACE_TYPE}

ObjectTypes == {ACCESS_ALLOWED_OBJECT_ACE_TYPE, ACCESS_DENIED_OBJECT_ACE_TYPE}

\* <<type, body>> of the ACEs that are encoded
AceShapes ==
  {<<t, SimpleBody(n, p)>> : t \in SimpleTypes \cup {UnknownType},
                             n \in 0..MaxSubAuth, p \in 0..MaxPad}
  \cup
  {<<t, ObjectBody(f, n, p)>> : t \in ObjectTypes, f \in 0..MaxObjectFlags,
                                n \in 0..MaxSubAuth, p \in 0..MaxPad}

\* the sizes an ACE header declares for a body of len bytes: the true one,
\* the ones below the header size, one word short and one word long
DeclaredSizes(len) == {len + 4, 0, 1, 2, 3, len, len + 8}

AceEncodings ==
  UNION {{AceBytes(sh[1], sz, sh[2]) : sz \in DeclaredSizes(Len(sh[2]))} :
           sh \in AceShapes}

\* the ACEs an ACL is made of: a simple one, a padded one, an object one,
\* one of an unknown type, one whose declared size is a word short of its
\* body and one whose declared size is below the header size
AclAceMenu ==
  { AceBytes(ACCESS_ALLOWED_ACE_TYPE, 4 + Len(SimpleBody(1, 0)), SimpleBody(1, 0)),
    AceBytes(ACCESS_DENIED_ACE_TYPE, 4 + Len(SimpleBody(0, 1)), SimpleBody(0, 1)),
    AceBytes(ACCESS_ALLOWED_OBJECT_ACE_TYPE, 4 + Len(ObjectBody(2, 1, 0)),
             ObjectBody(2, 1, 0)),
    AceBytes(UnknownType, 4 + Len(SimpleBody(0, 0)), SimpleBody(0, 0)),
    AceBytes(ACCESS_ALLOWED_ACE_TYPE, Len(SimpleBody(1, 0)), SimpleBody(1, 0)),
    AceBytes(ACCESS_ALLOWED_ACE_TYPE, 3, <<>>) }

RECURSIVE Concat(_)
Concat(ss) == IF ss = <<>> THEN <<>> ELSE Head(ss) \o Concat(Tail(ss))

Prefixes(b) == {SubSeq(b, 1, k) : k \in 0..Len(b)}

\* complete ACEs followed by one that may be cut
AceLists == UNION {[1..k -> AclAceMenu] : k \in 0..(MaxAces - 1)}

LastAces == UNION {Prefixes(b) : b \in AclAceMenu}

\* ACEs one after the other, as they lie in an ACL after its header
AceSequences == {Concat(aces) \o last : aces \in AceLists, last \in LastAces}

AclHeader(acl_size, ace_count) ==
  <<4, 0>> \o LE16(acl_size) \o LE16(ace_count) \o <<0, 0>>

\* ACLs whose declared count is the number of ACEs before the last one, that
\* number plus one or plus two, and whose declared size is that of the header
\* alone or that of the whole buffer
AclEncodings ==
  UNION {{AclHeader(sz, c) \o Concat(aces) \o last :
            c \in Len(aces)..(Len(aces) + 2),
            sz \in {8, 8 + Len(Concat(aces)) + Len(last)}} :
           aces \in AceLists, last \in LastAces}
  \cup Prefixes(AclHeader(8, 1))

\* SIDs, alone and followed by other bytes
SidEncodings ==
  {SidBytes(rev, n) \o Padding(p) :
     rev \in {1, 0, 127}, n \in 0..MaxSubAuth, p \in 0..MaxPad}

\* SID values: the lowest and the highest revision byte and the usual one, two
\* authorities, sub-authority lists over the lowest value, a usual one and the
\* highest one the checker's integers hold
Revisions == {1, 0, 255}

Authorities == {Authority, <<1, 2, 3, 4, 5, 6>>}

SubAuthorities == {0, 544, 2147483647}

SubAuthorityLists == UNION {[1..n -> SubAuthorities] : n \in 0..MaxSubAuth}

SidValues ==
  {[revision |-> r,
    sub_authority_count |-> Len(s),
    identifier_authority |-> [value |-> a],
    sub_authority |-> s] :
     r \in Revisions, a \in Authorities, s \in SubAuthorityLists}

RECURSIVE LE32s(_)
LE32s(s) == IF s = <<>> THEN <<>> ELSE LE32(Head(s)) \o LE32s(Tail(s))

\* the canonical byte layout of a SID: revision, count, the 6 authority bytes
\* in order, each sub-authority as 4 little-endian bytes
encode(sid) ==
  <<sid.revision, sid.sub_authority_count>>
    \o sid.identifier_authority.value \o LE32s(sid.sub_authority)

SidValueEncodings == {encode(sid) : sid \in SidValues}

SecurityDescriptorBytes ==
  <<1, 0, 4, 140, 120, 9, 0, 0, 0, 0, 0, 0, 0, 0, 0, 0, 20, 0, 0, 0>>

SecurityDescriptorEncodings ==
  {SecurityDescriptorBytes, SecurityDescriptorBytes \o SidBytes(1, 1)}

FlagsEncodings ==
  {LE32(f) \o g : f \in (0..MaxObjectFlags) \cup {2147483647},
                  g \in {<<>>, GuidA}}

\* the highest counts the headers can declare, on buffers that hold fewer
MaxAceCount == 65535

MaxSubAuthorityCount == 255

BigCountEncodings ==
  {AclHeader(8, MaxAceCount) \o b : b \in AceSequences}
  \cup {<<1, MaxSubAuthorityCount>> \o Authority \o SubAuthBytes(n) :
          n \in 0..MaxSubAuth}

Inputs ==
  UNION {Prefixes(b) : b \in SidEncodings \cup AceEncodings
                              \cup SecurityDescriptorEncodings}
  \cup AceSequences \cup AclEncodings \cup SidValueEncodings
  \cup BigCountEncodings

FlagsInputs == UNION {Prefixes(b) : b \in FlagsEncodings}

----------------------------------------------------------------------------
(* One decode call on one buffer.  overflow_checks is the build profile.   *)

NoResult == [kind |-> "None"]

Init ==
  /\ input = <<>>
  /\ overflow_checks \in BOOLEAN
  /\ call = "none"
  /\ result = NoResult

CallSecurityDescriptor ==
  /\ call = "none"
  /\ \E b \in Inputs :
       /\ input' = b
       /\ result' = SecurityDescriptor_parse(b)
  /\ call' = "SecurityDescriptor"
  /\ UNCHANGED overflow_checks

CallLdapSid ==
  /\ call = "none"
  /\ \E b \in Inputs :
       /\ input' = b
       /\ result' = LdapSid_parse(b)
  /\ call' = "LdapSid"
  /\ UNCHANGED overflow_checks

CallObjectAceFlags ==
  /\ call = "none"
  /\ \E b \in FlagsInputs :
       /\ input' = b
       /\ result' = ObjectAceFlags_parse(b)
  /\ call' = "ObjectAceFlags"
  /\ UNCHANGED overflow_checks

CallAce ==
  /\ call = "none"
  /\ \E b \in Inputs :
       /\ input' = b
       /\ result' = Ace_parse(b)
  /\ call' = "Ace"
  /\ UNCHANGED overflow_checks

CallAcl ==
  /\ call = "none"
  /\ \E b \in Inputs :
       /\ input' = b
       /\ result' = Acl_parse(b)
  /\ call' = "Acl"
  /\ UNCHANGED overflow_checks

Next ==
  \/ CallSecurityDescriptor
  \/ CallLdapSid
  \/ CallObjectAceFlags
  \/ CallAce
  \/ CallAcl

Spec == Init /\ [][Next]_vars

----------------------------------------------------------------------------
(* The two decoders that loop, one pass of the loop of count at a time.     *)
(* While the loop runs, result holds it: the input left, the values bound   *)
(* before the loop, the passes left and the elements collected so far.      *)

\* whole ACEs one after the other
WholeAceLists == UNION {[1..k -> AclAceMenu] : k \in 0..MaxAces}

\* ACLs declaring the ACEs they hold, one more, and the highest count
StepAcls ==
  UNION {{AclHeader(8, c) \o Concat(aces) :
            c \in {Len(aces), Len(aces) + 1, MaxAceCount}} :
           aces \in WholeAceLists}
  \cup Prefixes(AclHeader(8, 1))

\* SIDs declaring the sub-authorities they hold, cut anywhere, and SIDs
\* declaring the highest count
StepSids ==
  UNION {Prefixes(b) : b \in SidEncodings}
  \cup {<<1, MaxSubAuthorityCount>> \o Authority \o SubAuthBytes(n) :
          n \in 0..MaxSubAuth}

StepInputs == StepAcls \cup StepSids

Suffixes(b) == {Drop(b, k) : k \in 0..Len(b)}

\* Ace::parse under either build profile on every input a pass of the loop
\* can be left with, worked out once
Ace_parse_on ==
  [checks \in BOOLEAN |->
     [b \in UNION {Suffixes(a) : a \in StepAcls} |-> Ace_parse_in(b, checks)]]

\* the reads of Acl::parse before count(Ace::parse, ..)
Acl_header(i) ==
  let_le_u16(
    let_le_u16(
      let_le_u16(
        let_le_u8(
          let_le_u8(Start(i))))))

\* the reads of LdapSid::parse before count(le_u32, ..)
LdapSid_header(i) ==
  let_identifier_authority(
    let_le_u8(
      let_le_u8(Start(i))))

\* count(f, n) entered after the reads st, n the k-th value bound:
\* input = i, res = Vec::with_capacity(..), for _ in 0..count
count_enter(st, k) ==
  IF st.kind # "Ok" THEN st
  ELSE [kind |-> "Count", rest |-> st.rest, val |-> st.val,
        left |-> st.val[k], res |-> <<>>]

\* one pass of the loop, r the outcome of f on the input left:
\* Ok((i, o)) => { res.push(o); input = i; }, any Err returned
count_pass(lp, r) ==
  IF r.kind # "Ok" THEN r
  ELSE [lp EXCEPT !.rest = r.rest, !.left = @ - 1, !.res = Append(@, r.val)]

\* Ok((input, res)) after the last pass, bound by the let of the caller
count_leave(lp) == Bound(Ok(lp.rest, lp.val), Ok(lp.rest, lp.res))

AclEnter ==
  /\ call = "none"
  /\ \E b \in StepInputs :
       /\ input' = b
       /\ result' = count_enter(Acl_header(b), 4)
  /\ call' = "Acl"
  /\ UNCHANGED overflow_checks

AcePass ==
  /\ call = "Acl"
  /\ result.kind = "Count"
  /\ result.left > 0
  /\ result' = count_pass(result, Ace_parse_on[overflow_checks][result.rest])
  /\ UNCHANGED <<input, overflow_checks, call>>

AclReturn ==
  /\ call = "Acl"
  /\ result.kind = "Count"
  /\ result.left = 0
  /\ result' = Acl_new(count_leave(result))
  /\ UNCHANGED <<input, overflow_checks, call>>

LdapSidEnter ==
  /\ call = "none"
  /\ \E b \in StepInputs :
       /\ input' = b
       /\ result' = count_enter(LdapSid_header(b), 2)
  /\ call' = "LdapSid"
  /\ UNCHANGED overflow_checks

SubAuthorityPass ==
  /\ call = "LdapSid"
  /\ result.kind = "Count"
  /\ result.left > 0
  /\ result' = count_pass(result, le_u32(result.rest))
  /\ UNCHANGED <<input, overflow_checks, call>>

LdapSidReturn ==
  /\ call = "LdapSid"
  /\ result.kind = "Count"
  /\ result.left = 0
  /\ result' = LdapSid_new(count_leave(result))
  /\ UNCHANGED <<input, overflow_checks, call>>

NextSteps ==
  \/ AclEnter
  \/ AcePass
  \/ AclReturn
  \/ LdapSidEnter
  \/ SubAuthorityPass
  \/ LdapSidReturn

\* the passes and the return of a call that was entered
Run == AcePass \/ AclReturn \/ SubAuthorityPass \/ LdapSidReturn

\* Whether a call is made is up to the caller; a call that was entered runs
\* on, nothing else being scheduled in between, until it returns or panics.
SpecSteps == Init /\ [][NextSteps]_vars /\ WF_vars(Run)

----------------------------------------------------------------------------
(* One accessor call on one payload value; input is the value passed.      *)

Masks == {0, 983485}

GuidOptions == {None, Some(le_u128(GuidA).val), Some(le_u128(GuidB).val)}

AccessAllowedAces == {[mask |-> m, sid |-> sid] : m \in Masks, sid \in SidValues}

AccessAllowedObjectAces ==
  {[mask |-> m,
    flags |-> [bits |-> f],
    object_type |-> o,
    inherited_object_type |-> io,
    sid |-> sid] :
     m \in Masks, f \in 0..ObjectAceFlags_all, o \in GuidOptions,
     io \in GuidOptions, sid \in SidValues}

AceFormats ==
  {[variant |-> "AceAllowed", ace |-> a] : a \in AccessAllowedAces}
  \cup {[variant |-> "AceObjectAllowed", ace |-> a] : a \in AccessAllowedObjectAces}
  \cup {Empty}

InitAccessors ==
  /\ input \in AceFormats
  /\ overflow_checks \in BOOLEAN
  /\ call = "none"
  /\ result = NoResult

GetMask ==
  /\ call = "none"
  /\ call' = "get_mask"
  /\ result' = get_mask(input)
  /\ UNCHANGED <<input, overflow_checks>>

GetSid ==
  /\ call = "none"
  /\ call' = "get_sid"
  /\ result' = get_sid(input)
  /\ UNCHANGED <<input, overflow_checks>>

GetFlags ==
  /\ call = "none"
  /\ call' = "get_flags"
  /\ result' = get_flags(input)
  /\ UNCHANGED <<input, overflow_checks>>

GetObjectType ==
  /\ call = "none"
  /\ call' = "get_object_type"
  /\ result' = get_object_type(input)
  /\ UNCHANGED <<input, overflow_checks>>

GetInheritedObjectType ==
  /\ call = "none"
  /\ call' = "get_inherited_object_type"
  /\ result' = get_inherited_object_type(input)
  /\ UNCHANGED <<input, overflow_checks>>

NextAccessors ==
  \/ GetMask
  \/ GetSid
  \/ GetFlags
  \/ GetObjectType
  \/ GetInheritedObjectType

SpecAccessors == InitAccessors /\ [][NextAccessors]_vars

----------------------------------------------------------------------------
(* What the claims speak of, read off the input bytes *)

KnownTypes == SimpleTypes \cup ObjectTypes

\* a returned failure value, as opposed to a panic
Failures == {"Error", "Incomplete"}

U16At(b, o) == b[o + 1] + 256 * b[o + 2]

U32At(b, o) ==
  b[o + 1] + 256 * b[o + 2] + 65536 * b[o + 3] + 16777216 * b[o + 4]

\* the 16 bytes at offset o as a number: base-256 digits, most significant first
U128At(b, o) == [k \in 1..16 |-> b[o + 17 - k]]

\* the ace_size an ACE header declares
DeclaredSize(b) == U16At(b, 2)

\* the buffer holds a whole ACE: its header and the body the header declares
WholeAce(b) == Len(b) >= 4 /\ DeclaredSize(b) >= 4 /\ Len(b) >= DeclaredSize(b)

Body(b) == SubSeq(b, 5, DeclaredSize(b))

Bit(n, k) == (n \div (2 ^ k)) % 2

\* the bytes the GUIDs of an object body occupy
GuidBytes(body) == 16 * (Bit(body[5], 0) + Bit(body[5], 1))

\* the bytes the payload layout of a known type needs, as far as the body
\* tells: mask, flags, GUIDs, SID header and the declared sub-authorities
PayloadNeed(type, body) ==
  IF type \in SimpleTypes
  THEN IF Len(body) < 6 THEN 12 ELSE 12 + 4 * body[6]
  ELSE IF Len(body) < 8 THEN 16
  ELSE IF Len(body) < 8 + GuidBytes(body) + 2 THEN 16 + GuidBytes(body)
  ELSE 16 + GuidBytes(body) + 4 * body[8 + GuidBytes(body) + 2]

\* sid is the SID encoded at offset o of b
SidAt(sid, b, o) ==
  /\ sid.revision = b[o + 1]
  /\ sid.sub_authority_count = b[o + 2]
  /\ sid.identifier_authority.value = SubSeq(b, o + 3, o + 8)
  /\ Len(sid.sub_authority) = b[o + 2]
  /\ \A j \in 1..Len(sid.sub_authority) :
       sid.sub_authority[j] = U32At(b, o + 8 + 4 * (j - 1))

----------------------------------------------------------------------------
(* Claims *)

\* the decode entry points: SecurityDescriptor::parse, Acl::parse,
\* LdapSid::parse, and Ace::parse which Acl::parse drives
EntryPoints == {"SecurityDescriptor", "Acl", "LdapSid", "Ace"}

\* C1: every call of a decode entry point, on any input, ends by returning a
\* decoded value or a decode failure value; no input makes a decoder panic.
C1_NoPanic == call \in EntryPoints => result.kind \in {"Ok"} \cup Failures

\* C2: an ACE whose type is none of the four known ones decodes to an
\* Unrecognized payload holding exactly its ace_size - 4 body bytes, and an ACL
\* holding such an ACE decodes it and goes on.
C2_UnrecognizedPayload ==
  /\ (call = "Ace" /\ WholeAce(input) /\ input[1] \notin KnownTypes) =>
       /\ result.kind = "Ok"
       /\ result.val.data = [variant |-> "Unrecognized", raw |-> Body(input)]
  /\ (call = "Acl" /\ Len(input) >= 8 /\ U16At(input, 4) = 1
        /\ WholeAce(Drop(input, 8)) /\ input[9] \notin KnownTypes) =>
       /\ result.kind = "Ok"
       /\ Len(result.val.data) = 1

\* C3: an ACE header declaring a size below 4 makes the ACE decoder fail with
\* InvalidAceSize: no panic, no underflow, no truncation failure.
C3_InvalidAceSize ==
  (call = "Ace" /\ Len(input) >= 4 /\ DeclaredSize(input) < 4) =>
    (result.kind = "Error" /\ result.code = "InvalidAceSize")

\* the input of LdapSid::parse ends inside the SID
SidCut(b) == Len(b) < 2 \/ Len(b) < 8 + 4 * b[2]

\* the input of Ace::parse ends inside the header or inside the declared body
AceCut(b) == Len(b) < 4 \/ (DeclaredSize(b) >= 4 /\ Len(b) < DeclaredSize(b))

\* the body of a whole object ACE ends inside a GUID its flags announce
GuidCut(b) ==
  /\ WholeAce(b)
  /\ b[1] \in ObjectTypes
  /\ Len(Body(b)) >= 8
  /\ U32At(Body(b), 4) <= ObjectAceFlags_all
  /\ Len(Body(b)) < 8 + GuidBytes(Body(b))

\* the failure a cut revision byte is reported with
TruncatedInput == LdapSid_parse(<<>>)

SameFailureKind(r, t) ==
  /\ r.kind = t.kind
  /\ r.kind = "Error" => r.code = t.code

\* C4: input that ends before a required field is complete fails with one and
\* the same failure kind, whichever field is cut: a field of the SID, the ACE
\* header, the declared ACE body or a GUID.
C4_OneTruncationKind ==
  /\ (call = "LdapSid" /\ SidCut(input)) => SameFailureKind(result, TruncatedInput)
  /\ (call = "Ace" /\ (AceCut(input) \/ GuidCut(input))) =>
       SameFailureKind(result, TruncatedInput)

\* C5: every 32-bit flags value decodes, and the decoded ObjectAceFlags keeps
\* every bit of it, the bits other than 0x1 and 0x2 included.
C5_FlagsKeepEveryBit ==
  (call = "ObjectAceFlags" /\ Len(input) >= 4) =>
    (result.kind = "Ok" /\ result.val.bits = U32At(input, 0))

\* C6: when Acl::parse succeeds, the number of ACEs it returns is the
\* ace_count of the ACL header.
C6_AceCountMatches ==
  (call = "Acl" /\ result.kind = "Ok") =>
    Len(result.val.data) = U16At(input, 4)

C6_Witness ==
  /\ call = "Acl"
  /\ result.kind = "Ok"
  /\ U16At(input, 4) = 2
  /\ Len(result.val.data) = 2

\* C7: the payload is decoded from the ace_size - 4 body bytes alone: when the
\* payload fields need more bytes than the body holds, the ACE decode returns
\* a failure, and a decoded payload lies within the body.
C7_PayloadWithinBody ==
  (call = "Ace" /\ WholeAce(input) /\ input[1] \in KnownTypes) =>
    /\ PayloadNeed(input[1], Body(input)) > Len(Body(input)) =>
         result.kind \in Failures
    /\ result.kind = "Ok" =>
         PayloadNeed(input[1], Body(input)) <= Len(Body(input))

\* C8: when Ace::parse succeeds, the remaining input is the input without its
\* first ace_size bytes.
C8_ConsumesAceSize ==
  (call = "Ace" /\ result.kind = "Ok") =>
    /\ Len(input) >= DeclaredSize(input)
    /\ result.rest = Drop(input, DeclaredSize(input))

\* a padded ACE followed by more input: the payload uses less than the body
C8_Witness ==
  /\ call = "Ace"
  /\ result.kind = "Ok"
  /\ PayloadNeed(input[1], Body(input)) < Len(Body(input))
  /\ Len(result.rest) > 0

\* C9: in a decoded object ACE, objectType is present iff bit 0 of flags is
\* set and inheritedObjectType iff bit 1 is set, objectType is read first, an
\* absent GUID takes no bytes, and the SID starts at body offset
\* 8 + 16 * (number of set bits among bit 0 and bit 1).
C9_GuidsFollowFlags ==
  (call = "Ace" /\ result.kind = "Ok" /\ input[1] \in ObjectTypes) =>
    LET body == Body(input)
        f == U32At(body, 4)
        ace == result.val.data.ace
    IN /\ ace.flags.bits = f
       /\ ace.object_type.some <=> Bit(f, 0) = 1
       /\ ace.inherited_object_type.some <=> Bit(f, 1) = 1
       /\ ace.object_type.some => ace.object_type.v = U128At(body, 8)
       /\ ace.inherited_object_type.some =>
            ace.inherited_object_type.v = U128At(body, 8 + 16 * Bit(f, 0))
       /\ SidAt(ace.sid, body, 8 + 16 * (Bit(f, 0) + Bit(f, 1)))

\* the object ACE of the scenario: only bit 1 set, the SID right after the GUID
C9_Witness ==
  /\ call = "Ace"
  /\ result.kind = "Ok"
  /\ input[1] = ACCESS_ALLOWED_OBJECT_ACE_TYPE
  /\ result.val.data.ace.flags.bits = 2
  /\ ~result.val.data.ace.object_type.some
  /\ result.val.data.ace.inherited_object_type.some
  /\ result.val.data.ace.sid.sub_authority_count = 1

\* C10: when LdapSid::parse succeeds, with n the count in the second byte, it
\* consumes 8 + 4n bytes and returns n sub-authorities.
C10_SidLength ==
  (call = "LdapSid" /\ result.kind = "Ok") =>
    /\ Len(input) >= 8 + 4 * input[2]
    /\ result.rest = Drop(input, 8 + 4 * input[2])
    /\ Len(result.val.sub_authority) = input[2]
    /\ result.val.sub_authority_count = input[2]

C10_Witness ==
  /\ call = "LdapSid"
  /\ result.kind = "Ok"
  /\ input[2] = 2
  /\ Len(result.val.sub_authority) = 2
  /\ Len(result.rest) > 0

\* C11: decoding the canonical encoding of a SID value returns that value,
\* equal in every field, and leaves no input; no revision byte is rejected.
C11_SidRoundTrip ==
  call = "LdapSid" =>
    \A sid \in SidValues : input = encode(sid) => result = Ok(<<>>, sid)

\* a SID of revision 255 with the other authority and two sub-authorities, the
\* highest value among them
C11_Witness ==
  /\ call = "LdapSid"
  /\ result.kind = "Ok"
  /\ result.val.revision = 255
  /\ result.val.identifier_authority.value = <<1, 2, 3, 4, 5, 6>>
  /\ result.val.sub_authority = <<544, 2147483647>>
  /\ input = encode(result.val)

\* the header the first 20 bytes of b spell out
HeaderAt(b) ==
  [revision |-> b[1],
   sbz1 |-> b[2],
   control |-> U16At(b, 2),
   offset_owner |-> U32At(b, 4),
   offset_group |-> U32At(b, 8),
   offset_sacl |-> U32At(b, 12),
   offset_dacl |-> U32At(b, 16)]

\* C12: on an input of at least 20 bytes SecurityDescriptor::parse succeeds,
\* consumes exactly the first 20 bytes and returns the seven header fields read
\* from bytes 0, 1, 2-3, 4-7, 8-11, 12-15 and 16-19, little-endian, and nothing
\* else: no offset is followed.  On a shorter input it returns a failure.
C12_HeaderOnly ==
  call = "SecurityDescriptor" =>
    IF Len(input) >= 20
    THEN result = Ok(Drop(input, 20), HeaderAt(input))
    ELSE result.kind \in Failures

\* the header of the scenario, followed by more bytes
C12_Witness ==
  /\ call = "SecurityDescriptor"
  /\ Len(input) > 20
  /\ result.kind = "Ok"
  /\ result.val.revision = 1
  /\ result.val.control = 35844
  /\ result.val.offset_owner = 2424
  /\ result.val.offset_group = 0
  /\ result.val.offset_dacl = 20
  /\ Len(result.rest) > 0

SimpleVariant(value) == value.variant = "AceAllowed"

ObjectVariant(value) == value.variant = "AceObjectAllowed"

\* C13: on every payload value each accessor returns an option, never a
\* failure: get_mask and get_sid the mask and the SID of the simple and of the
\* object variant, get_flags, get_object_type and get_inherited_object_type
\* the stored flags and the stored optional GUIDs of the object variant, and
\* each of them the absent value in every other case.
C13_Accessors ==
  /\ call # "none" => DOMAIN result \in {DOMAIN None, DOMAIN Some(0)}
  /\ call = "get_mask" =>
       /\ (SimpleVariant(input) \/ ObjectVariant(input)) =>
            result = Some(input.ace.mask)
       /\ input = Empty => result = None
  /\ call = "get_sid" =>
       /\ (SimpleVariant(input) \/ ObjectVariant(input)) =>
            result = Some(input.ace.sid)
       /\ input = Empty => result = None
  /\ call = "get_flags" =>
       /\ ObjectVariant(input) => result = Some(input.ace.flags)
       /\ ~ObjectVariant(input) => result = None
  /\ call = "get_object_type" =>
       /\ ObjectVariant(input) => result = input.ace.object_type
       /\ ~ObjectVariant(input) => result = None
  /\ call = "get_inherited_object_type" =>
       /\ ObjectVariant(input) => result = input.ace.inherited_object_type
       /\ ~ObjectVariant(input) => result = None

\* an object payload holding the object type alone, asked for it
C13_Witness ==
  /\ call = "get_object_type"
  /\ ObjectVariant(input)
  /\ ~input.ace.inherited_object_type.some
  /\ result = Some(le_u128(GuidA).val)

\* C14: a decoded ACE of type ACCESS_ALLOWED or ACCESS_DENIED carries the type
\* and flags bytes of its header unchanged and the simple payload: the mask is
\* the first 4 body bytes, little-endian, and the SID is the one encoded at
\* body offset 4.
C14_SimpleAce ==
  (call = "Ace" /\ result.kind = "Ok" /\ input[1] \in SimpleTypes) =>
    /\ result.val.ace_type = input[1]
    /\ result.val.ace_flags = input[2]
    /\ result.val.data.variant = "AceAllowed"
    /\ DOMAIN result.val.data.ace = {"mask", "sid"}
    /\ result.val.data.ace.mask = U32At(Body(input), 0)
    /\ SidAt(result.val.data.ace.sid, Body(input), 4)

\* the ACE of the scenario: type 0x00, flags 0x12, size 0x0018, mask 0x000F01BD
\* and a SID of two sub-authorities
C14_Witness ==
  /\ call = "Ace"
  /\ result.kind = "Ok"
  /\ input = <<0, 18, 24, 0, 189, 1, 15, 0,
               1, 2, 0, 0, 0, 0, 0, 5, 32, 0, 0, 0, 32, 2, 0, 0>>
  /\ result.val.ace_type = 0
  /\ result.val.data.ace.mask = 983485
  /\ result.val.data.ace.sid.sub_authority_count = 2
  /\ result.val.data.ace.sid.sub_authority = <<32, 544>>

\* the offset in the ACL b of the header of its k-th ACE: 8 for the first, and
\* for the next the offset of the one before plus the size that one declares
RECURSIVE AceOffset(_, _)
AceOffset(b, k) ==
  IF k = 1 THEN 8
  ELSE AceOffset(b, k - 1) + U16At(b, AceOffset(b, k - 1) + 2)

\* the bytes of the k-th ACE of the ACL b: its header and its declared body
AceAt(b, k) ==
  SubSeq(b, AceOffset(b, k) + 1, AceOffset(b, k + 1))

\* C15: in a successful Acl::parse the k-th returned ACE is the one whose
\* header starts at offset 8 + the sum of the declared sizes of the ACEs
\* before it, decoded from the bytes it declares, and the call consumes
\* 8 + the sum of all the declared sizes.
C15_AcesInBufferOrder ==
  (call = "Acl" /\ result.kind = "Ok") =>
    /\ \A k \in 1..Len(result.val.data) :
         /\ AceOffset(input, k + 1) <= Len(input)
         /\ result.val.data[k].ace_type = input[AceOffset(input, k) + 1]
         /\ result.val.data[k].ace_flags = input[AceOffset(input, k) + 2]
         /\ result.val.data[k].ace_size = U16At(input, AceOffset(input, k) + 2)
         /\ Ace_parse(AceAt(input, k)) = Ok(<<>>, result.val.data[k])
    /\ result.rest = Drop(input, AceOffset(input, Len(result.val.data) + 1))

\* two ACEs of different types and sizes, decoded in the order they lie in
C15_Witness ==
  /\ call = "Acl"
  /\ result.kind = "Ok"
  /\ Len(result.val.data) = 2
  /\ result.val.data[1].ace_type # result.val.data[2].ace_type
  /\ result.val.data[1].ace_size > result.val.data[2].ace_size
  /\ result.rest = <<>>

\* the ace_count an ACL header declares
DeclaredCount(b) == U16At(b, 4)

\* b holds n whole ACEs one after the other, going by the sizes they declare
RECURSIVE HoldsAces(_, _)
HoldsAces(b, n) ==
  \/ n = 0
  \/ /\ WholeAce(b)
     /\ HoldsAces(Drop(b, DeclaredSize(b)), n - 1)

\* the outcome of the first of the n ACE decodes from b on that does not
\* succeed, NoResult when all of them succeed
RECURSIVE FirstNotDecoded(_, _)
FirstNotDecoded(b, n) ==
  IF n = 0 THEN NoResult
  ELSE IF Ace_parse(b).kind # "Ok" THEN Ace_parse(b)
  ELSE FirstNotDecoded(Ace_parse(b).rest, n - 1)

\* C16: when the decode of one of the ace_count ACEs returns a failure, or the
\* buffer ends before it holds ace_count ACEs, Acl::parse returns a failure,
\* the one of the ACE decode that stopped it, and no Acl value: nothing of the
\* ACEs decoded before is returned.
C16_FailureNotPartial ==
  (/\ call = "Acl"
   /\ Len(input) >= 8
   /\ \/ ~HoldsAces(Drop(input, 8), DeclaredCount(input))
      \/ FirstNotDecoded(Drop(input, 8), DeclaredCount(input)).kind \in Failures)
  =>
    /\ result.kind \in Failures
    /\ result = FirstNotDecoded(Drop(input, 8), DeclaredCount(input))

\* the sum of the ace_size fields of a list of decoded ACEs
RECURSIVE SumAceSizes(_)
SumAceSizes(aces) ==
  IF aces = <<>> THEN 0 ELSE Head(aces).ace_size + SumAceSizes(Tail(aces))

\* C17: in every Acl a successful Acl::parse returns, the declared sizes of
\* its ACEs add up to no more than the acl_size of its header.
C17_SizesWithinAclSize ==
  (call = "Acl" /\ result.kind = "Ok") =>
    SumAceSizes(result.val.data) <= result.val.acl_size

\* the call has ended: it returned or it panicked
Ended == call # "none" /\ result.kind # "Count"

\* the count the loop of the call runs up to
LoopCount == IF call = "Acl" THEN DeclaredCount(input) ELSE input[2]

\* While the loop runs, the elements read and the passes left add up to the
\* count, the input left is the end of the input, and every element read took
\* at least 4 of the bytes after the 8 the loop starts at.
BoundedPasses ==
  result.kind = "Count" =>
    /\ result.left >= 0
    /\ Len(result.res) + result.left = LoopCount
    /\ result.rest = Drop(input, Len(input) - Len(result.rest))
    /\ 8 + 4 * Len(result.res) + Len(result.rest) <= Len(input)

\* the count is more than the input after the 8 bytes before the loop allows,
\* at 4 bytes or more an element, or the input ends before the loop
CountBeyondInput == Len(input) < 8 \/ 4 * LoopCount > Len(input) - 8

\* C18: every call of Acl::parse and of LdapSid::parse ends; its loop makes at
\* most as many passes as the count says, each on what is left of the input;
\* and a call whose count is more than the input allows ends in a failure.
C18_BoundedWork ==
  /\ (call # "none") ~> Ended
  /\ [](BoundedPasses)
  /\ []((Ended /\ CountBeyondInput) => result.kind \in Failures)

\* the body of a whole ACE of a known type goes on after its mask, flags,
\* GUIDs and SID
PaddedAce(b) ==
  /\ WholeAce(b)
  /\ b[1] \in KnownTypes
  /\ PayloadNeed(b[1], Body(b)) < Len(Body(b))

\* the body bytes of an ACE that its mask, flags, GUIDs and SID take
PayloadBytes(b) == SubSeq(Body(b), 1, PayloadNeed(b[1], Body(b)))

\* C19: an ACE of a known type whose body goes on after its mask, flags, GUIDs
\* and SID decodes; its payload is the one its body decodes to without the
\* bytes after the SID, and what is left of the input starts at the declared
\* boundary, ace_size bytes from the start of the header.
C19_PaddingIgnored ==
  (call = "Ace" /\ PaddedAce(input)) =>
    /\ result.kind = "Ok"
    /\ AceFormat_parse(PayloadBytes(input), input[1]).kind = "Ok"
    /\ result.val.data = AceFormat_parse(PayloadBytes(input), input[1]).val
    /\ result.val.ace_size = DeclaredSize(input)
    /\ result.rest = Drop(input, DeclaredSize(input))

====
